---- MODULE Spec2Model ----
(***************************************************************************)
(* Model of ga4gh/cat-vrs-python: the Pydantic models of categorical       *)
(* variation (models.py), the strict constraint recipes (recipes.py) and   *)
(* the permissive property mixins (profile_models.py).                     *)
(*                                                                         *)
(* A construction is a request that Pydantic takes through the field's     *)
(* structural validation and then through the class's "after" field        *)
(* validator.  Python values are modelled as follows:                      *)
(*   - an Enum member is a record [name, value];                           *)
(*   - a relation object of the strict profile is a record [primaryCode];  *)
(*   - an optional list is None or Some(list);                             *)
(*   - a constraint is a record [type, relations].                         *)
(***************************************************************************)
EXTENDS Integers, Sequences, FiniteSets, TLC

VARIABLES phase, req, outcome, validatorCalled, instance, log, instances

vars == <<phase, req, outcome, validatorCalled, instance, log, instances>>

(***************************************************************************)
(* Bounds of the explored inputs: the longest constraints list and the     *)
(* most relation objects in one request, for each recipe; the longest      *)
(* relations list of the permissive profile; the instances kept.           *)
(***************************************************************************)
MaxLenCA == 2
MaxRelCA == 3
MaxLenPSC == 3
MaxRelPSC == 2
MaxLenCNV == 3
MaxRelCNV == 1
MaxRelPerm == 3
MaxObjects == 2

(***************************************************************************)
(* Python values.                                                          *)
(***************************************************************************)
None == [isNone |-> TRUE, items |-> <<>>]

Some(items) == [isNone |-> FALSE, items |-> items]

\* bool(x) of an optional list: None and [] are falsy.
Truthy(opt) == ~opt.isNone /\ Len(opt.items) > 0

NoInstance == [kind |-> "None", type |-> "None"]

Lists(S, n) == UNION {[1..k -> S] : k \in 0..n}

(***************************************************************************)
(* recipes.py: the Relation vocabulary and the constraint classes it       *)
(* imports from ga4gh.cat_vrs.models.                                      *)
(***************************************************************************)
LIFTOVER_TO == [name |-> "LIFTOVER_TO", value |-> "liftover_to"]

TRANSCRIBES_TO == [name |-> "TRANSCRIBES_TO", value |-> "transcribes_to"]

TRANSLATES_FROM == [name |-> "TRANSLATES_FROM", value |-> "translates_from"]

Relation == {LIFTOVER_TO, TRANSCRIBES_TO, TRANSLATES_FROM}

\* A relation object carried by a constraint: a concept with a primaryCode.
RelationObjects == {[primaryCode |-> r.value] : r \in Relation}

DefiningAlleleConstraint == "DefiningAlleleConstraint"

DefiningLocationConstraint == "DefiningLocationConstraint"

CopyCountConstraint == "CopyCountConstraint"

CopyChangeConstraint == "CopyChangeConstraint"

\* The Constraint union: every variant carries an optional list of relations.
Constraint(types, maxRel) ==
    {[type |-> t, relations |-> r] :
        t \in types,
        r \in {None} \cup {Some(s) : s \in Lists(RelationObjects, maxRel)}}

isinstance(constraint, cls) == constraint.type = cls

\* r.primaryCode == Relation.X : a str-valued Enum member equals its value.
PrimaryCodeEq(r, member) == r.primaryCode = member.value

\* sum(1 for r in relations if r.primaryCode == member)
RECURSIVE CountCode(_, _)
CountCode(items, member) ==
    IF items = <<>> THEN 0
    ELSE (IF PrimaryCodeEq(Head(items), member) THEN 1 ELSE 0)
         + CountCode(Tail(items), member)

\* member in relations : Python's list membership, by == on the elements.
\* An Enum member and a relation object are values of different classes.
In(member, items) == \E i \in 1..Len(items) : items[i] = member

(***************************************************************************)
(* recipes.py: Field(..., min_length, max_length) of each class.           *)
(***************************************************************************)
\* Variant: max_length left out of the Field declarations.
LengthError_noMax(kind, v) ==
    CASE kind = "CanonicalAllele" -> IF Len(v) < 1 THEN "too_short" ELSE "ok"
      [] kind = "ProteinSequenceConsequence" ->
            IF Len(v) < 1 THEN "too_short" ELSE "ok"
      [] kind = "CategoricalCnv" -> IF Len(v) < 2 THEN "too_short" ELSE "ok"

LengthError(kind, v) ==
    CASE kind = "CanonicalAllele" ->
            IF Len(v) < 1 THEN "too_short"
            ELSE IF Len(v) > 1 THEN "too_long" ELSE "ok"
      [] kind = "ProteinSequenceConsequence" ->
            IF Len(v) < 1 THEN "too_short" ELSE "ok"
      [] kind = "CategoricalCnv" ->
            IF Len(v) < 2 THEN "too_short"
            ELSE IF Len(v) > 2 THEN "too_long" ELSE "ok"

(***************************************************************************)
(* recipes.py: ProteinSequenceConsequence.validate_constraints.            *)
(* any() walks the list in order and stops at the first true item; the     *)
(* tuple handed to all() is built whole, so the sum iterates               *)
(* constraint.relations whatever the two tests before it gave, and         *)
(* iterating None raises TypeError.                                        *)
(***************************************************************************)
RECURSIVE ProteinSequenceConsequence_any(_)
ProteinSequenceConsequence_any(v) ==
    IF v = <<>> THEN "value_error"
    ELSE LET constraint == Head(v) IN
         IF constraint.relations.isNone THEN "TypeError"
         ELSE IF /\ isinstance(constraint, DefiningAlleleConstraint)
                 /\ Truthy(constraint.relations)
                 /\ CountCode(constraint.relations.items, TRANSLATES_FROM) = 1
              THEN "ok"
              ELSE ProteinSequenceConsequence_any(Tail(v))

ProteinSequenceConsequence_validate_constraints(v) ==
    ProteinSequenceConsequence_any(v)

(***************************************************************************)
(* recipes.py: CanonicalAllele.validate_constraints.                       *)
(***************************************************************************)
\* Variant: the liftover_to count accepts one or more matches.
CanonicalAllele_validate_constraints_atLeastOne(v) ==
    IF v = <<>> THEN "IndexError"
    ELSE LET constraint == v[1] IN
         IF ~isinstance(constraint, DefiningAlleleConstraint) THEN "value_error"
         ELSE IF ~Truthy(constraint.relations) THEN "value_error"
         ELSE IF CountCode(constraint.relations.items, LIFTOVER_TO) < 1
              THEN "value_error"
         ELSE IF CountCode(constraint.relations.items, TRANSCRIBES_TO) # 1
              THEN "value_error"
         ELSE "ok"

CanonicalAllele_validate_constraints(v) ==
    IF v = <<>> THEN "IndexError"
    ELSE LET constraint == v[1] IN
         IF ~isinstance(constraint, DefiningAlleleConstraint) THEN "value_error"
         ELSE IF ~Truthy(constraint.relations) THEN "value_error"
         ELSE IF CountCode(constraint.relations.items, LIFTOVER_TO) # 1
              THEN "value_error"
         ELSE IF CountCode(constraint.relations.items, TRANSCRIBES_TO) # 1
              THEN "value_error"
         ELSE "ok"

(***************************************************************************)
(* recipes.py: CategoricalCnv.validate_constraints.                        *)
(***************************************************************************)
RECURSIVE CategoricalCnv_loop(_, _, _)
CategoricalCnv_loop(v, def_loc_constr_found, copy_constr_found) ==
    IF v = <<>> THEN <<def_loc_constr_found, copy_constr_found>>
    ELSE LET constraint == Head(v)
             d == IF ~def_loc_constr_found
                  THEN /\ isinstance(constraint, DefiningLocationConstraint)
                       /\ Truthy(constraint.relations)
                       /\ In(LIFTOVER_TO, constraint.relations.items)
                  ELSE def_loc_constr_found
             c == IF ~copy_constr_found
                  THEN \/ isinstance(constraint, CopyCountConstraint)
                       \/ isinstance(constraint, CopyChangeConstraint)
                  ELSE copy_constr_found
         IN CategoricalCnv_loop(Tail(v), d, c)

CategoricalCnv_validate_constraints(v) ==
    LET found == CategoricalCnv_loop(v, FALSE, FALSE) IN
    IF ~found[1] THEN "value_error"
    ELSE IF ~found[2] THEN "value_error"
    ELSE "ok"

validate_constraints(kind, v) ==
    CASE kind = "CanonicalAllele" -> CanonicalAllele_validate_constraints(v)
      [] kind = "ProteinSequenceConsequence" ->
            ProteinSequenceConsequence_validate_constraints(v)
      [] kind = "CategoricalCnv" -> CategoricalCnv_validate_constraints(v)

(***************************************************************************)
(* The strict profile: one construction, in Pydantic's order.  The field   *)
(* is validated against its declared shape first; the class's field        *)
(* validator (mode "after") runs only on a value that passed.              *)
(***************************************************************************)
\* len(constraint.relations), 0 when it is absent.
RelationCount(constraint) ==
    IF constraint.relations.isNone THEN 0 ELSE Len(constraint.relations.items)

\* The constraint classes recipes.py imports: the items of a request.
ConstraintTypes ==
    {DefiningAlleleConstraint, DefiningLocationConstraint,
     CopyCountConstraint, CopyChangeConstraint}

MaxLen(kind) ==
    CASE kind = "CanonicalAllele" -> MaxLenCA
      [] kind = "ProteinSequenceConsequence" -> MaxLenPSC
      [] kind = "CategoricalCnv" -> MaxLenCNV

MaxRel(kind) ==
    CASE kind = "CanonicalAllele" -> MaxRelCA
      [] kind = "ProteinSequenceConsequence" -> MaxRelPSC
      [] kind = "CategoricalCnv" -> MaxRelCNV

RECURSIVE TotalRelations(_)
TotalRelations(v) ==
    IF v = <<>> THEN 0 ELSE RelationCount(Head(v)) + TotalRelations(Tail(v))

\* The caller starts the constraints argument of one of the three recipes.
InitStrict ==
    /\ \E kind \in {"CanonicalAllele", "ProteinSequenceConsequence",
                    "CategoricalCnv"} :
          req = [profile |-> "strict", kind |-> kind, constraints |-> <<>>]
    /\ phase = "input"
    /\ outcome = "none"
    /\ validatorCalled = FALSE
    /\ instance = NoInstance
    /\ log = <<>>
    /\ instances = {}

\* The caller puts one more constraint in the list it will pass.
AppendConstraint ==
    /\ phase = "input"
    /\ req.profile = "strict"
    /\ Len(req.constraints) < MaxLen(req.kind)
    /\ \E c \in Constraint(ConstraintTypes,
                           MaxRel(req.kind) - TotalRelations(req.constraints)) :
          req' = [req EXCEPT !.constraints = Append(@, c)]
    /\ UNCHANGED <<phase, outcome, validatorCalled, instance, log, instances>>

\* The class is called with the list: the field's shape is validated first.
StructuralValidation ==
    /\ phase = "input"
    /\ req.profile = "strict"
    /\ LET e == LengthError(req.kind, req.constraints) IN
       IF e = "ok"
       THEN /\ phase' = "semantic"
            /\ UNCHANGED outcome
       ELSE /\ phase' = "done"
            /\ outcome' = e
    /\ UNCHANGED <<req, validatorCalled, instance, log, instances>>

SemanticValidation ==
    /\ phase = "semantic"
    /\ req.profile = "strict"
    /\ validatorCalled' = TRUE
    /\ outcome' = validate_constraints(req.kind, req.constraints)
    /\ instance' = IF outcome' = "ok"
                   THEN [kind |-> req.kind, type |-> req.kind]
                   ELSE NoInstance
    /\ phase' = "done"
    /\ UNCHANGED <<req, log, instances>>

\* A construction of a recipe class as a whole: the field's shape, then the
\* field validator on a list that passed.
StrictConstruction(kind, v) ==
    IF LengthError(kind, v) # "ok" THEN LengthError(kind, v)
    ELSE validate_constraints(kind, v)

NextStrict == AppendConstraint \/ StructuralValidation \/ SemanticValidation

SpecStrict == InitStrict /\ [][NextStrict]_vars

(***************************************************************************)
(* models.py: the kinds, their type tags and their required fields.        *)
(***************************************************************************)
CatVrsType ==
    [PROTEIN_SEQ_CONS |-> "ProteinSequenceConsequence",
     CANONICAL_ALLELE |-> "CanonicalAllele",
     CATEGORICAL_CNV |-> "CategoricalCnv",
     DESCRIBED_VAR |-> "DescribedVariation",
     NUMBER_COUNT |-> "NumberCount",
     NUMBER_CHANGE |-> "NumberChange",
     QUANTITY_VARIANCE |-> "QuantityVariance"]

\* The classes of models.py that carry a type tag.
Kinds ==
    {"ProteinSequenceConsequence", "CanonicalAllele", "CategoricalCnv",
     "DescribedVariation", "NumberCount", "NumberChange", "QuantityVariance"}

\* A key the mapping does not hold.
Absent == "<absent>"

\* The type values a mapping may hold: no key, a kind's string, another string.
TypeArgs == {Absent, "Unknown"} \cup Kinds

Labels == {Absent, "", "BRAF V600E"}

ConstraintsArgs == {Absent, "[]", "[DefiningAlleleConstraint]"}

\* Variant: the tags of NumberCount and NumberChange exchanged.
TypeLiteral_swapped(kind) ==
    CASE kind = "ProteinSequenceConsequence" -> CatVrsType.PROTEIN_SEQ_CONS
      [] kind = "CanonicalAllele" -> CatVrsType.CANONICAL_ALLELE
      [] kind = "CategoricalCnv" -> CatVrsType.CATEGORICAL_CNV
      [] kind = "DescribedVariation" -> CatVrsType.DESCRIBED_VAR
      [] kind = "NumberCount" -> CatVrsType.NUMBER_CHANGE
      [] kind = "NumberChange" -> CatVrsType.NUMBER_COUNT
      [] kind = "QuantityVariance" -> CatVrsType.QUANTITY_VARIANCE

\* type: Literal[CatVrsType.X] = Field(CatVrsType.X) of each class.
TypeLiteral(kind) ==
    CASE kind = "ProteinSequenceConsequence" -> CatVrsType.PROTEIN_SEQ_CONS
      [] kind = "CanonicalAllele" -> CatVrsType.CANONICAL_ALLELE
      [] kind = "CategoricalCnv" -> CatVrsType.CATEGORICAL_CNV
      [] kind = "DescribedVariation" -> CatVrsType.DESCRIBED_VAR
      [] kind = "NumberCount" -> CatVrsType.NUMBER_COUNT
      [] kind = "NumberChange" -> CatVrsType.NUMBER_CHANGE
      [] kind = "QuantityVariance" -> CatVrsType.QUANTITY_VARIANCE

\* Variant: label declared optional.
RequiredPresent_labelOptional(kind, m) ==
    CASE kind \in {"ProteinSequenceConsequence", "CanonicalAllele"} -> m.required
      [] kind = "CategoricalCnv" -> m.required
      [] kind = "DescribedVariation" -> TRUE
      [] kind \in {"NumberCount", "NumberChange"} -> m.required
      [] kind = "QuantityVariance" -> TRUE

\* The fields declared with Field(...): definingContext, location, label,
\* count, change.  label is a StrictStr: any string, the empty one included.
RequiredPresent(kind, m) ==
    CASE kind \in {"ProteinSequenceConsequence", "CanonicalAllele"} -> m.required
      [] kind = "CategoricalCnv" -> m.required
      [] kind = "DescribedVariation" -> m.label # Absent
      [] kind \in {"NumberCount", "NumberChange"} -> m.required
      [] kind = "QuantityVariance" -> TRUE

\* Construction of one class from a mapping: the outcome and the instance.
\* A key the class does not declare (constraints) is not read.
Construct(kind, m) ==
    IF m.type # Absent /\ m.type # TypeLiteral(kind)
    THEN [outcome |-> "literal_error", instance |-> NoInstance]
    ELSE IF ~RequiredPresent(kind, m)
    THEN [outcome |-> "missing", instance |-> NoInstance]
    ELSE [outcome |-> "ok",
          instance |-> [kind |-> kind, type |-> TypeLiteral(kind)]]

\* The members of the CategoricalVariation union.
UnionMembers ==
    {"CanonicalAllele", "CategoricalCnv", "DescribedVariation",
     "ProteinSequenceConsequence"}

\* Variant: an undiscriminated union, which tries its members in turn.
CategoricalVariation_untagged(m) ==
    IF m.type \in UnionMembers THEN Construct(m.type, m)
    ELSE IF m.type = Absent THEN Construct("CanonicalAllele", m)
    ELSE [outcome |-> "union_tag_invalid", instance |-> NoInstance]

\* CategoricalVariation: RootModel over the union, discriminator="type".
CategoricalVariation(m) ==
    IF m.type = Absent
    THEN [outcome |-> "union_tag_not_found", instance |-> NoInstance]
    ELSE IF m.type \notin UnionMembers
    THEN [outcome |-> "union_tag_invalid", instance |-> NoInstance]
    ELSE Construct(m.type, m)

(***************************************************************************)
(* models.py: constructions and decodings, one after the other; the        *)
(* instances made so far stay around.                                      *)
(***************************************************************************)
NoRequest == [profile |-> "none"]

Mappings(kind) ==
    {[type |-> t, required |-> r, label |-> l, constraints |-> c] :
        t \in TypeArgs,
        r \in IF kind \in {"DescribedVariation", "QuantityVariance"}
              THEN {TRUE} ELSE BOOLEAN,
        l \in IF kind = "DescribedVariation" THEN Labels ELSE {Absent},
        c \in IF kind = "DescribedVariation" THEN ConstraintsArgs ELSE {Absent}}

DecodeMappings ==
    {[type |-> t, required |-> r, label |-> l, constraints |-> Absent] :
        t \in TypeArgs, r \in BOOLEAN, l \in Labels}

InitModels ==
    /\ req = NoRequest
    /\ phase = "idle"
    /\ outcome = "none"
    /\ validatorCalled = FALSE
    /\ instance = NoInstance
    /\ log = <<>>
    /\ instances = {}

Finish(r) ==
    /\ outcome' = r.outcome
    /\ instance' = r.instance
    /\ instances' = IF r.outcome = "ok"
                    THEN instances \cup {r.instance} ELSE instances
    /\ phase' = "done"
    /\ UNCHANGED <<validatorCalled, log>>

ConstructModel ==
    /\ Cardinality(instances) < MaxObjects
    /\ \E kind \in Kinds : \E m \in Mappings(kind) :
        /\ req' = [profile |-> "models", op |-> "construct", kind |-> kind,
                   m |-> m]
        /\ Finish(Construct(kind, m))

DecodeModel ==
    /\ Cardinality(instances) < MaxObjects
    /\ \E m \in DecodeMappings :
        /\ req' = [profile |-> "models", op |-> "decode", kind |-> "union",
                   m |-> m]
        /\ Finish(CategoricalVariation(m))

NextModels == ConstructModel \/ DecodeModel

SpecModels == InitModels /\ [][NextModels]_vars

(***************************************************************************)
(* profile_models.py: the permissive profile.  Its constraints field holds *)
(* one DefiningContextConstraint, whose relations are members of the       *)
(* Relation vocabulary of ga4gh.cat_vrs.core_models; the validators test   *)
(* membership and log a warning.                                           *)
(***************************************************************************)
CODON_TRANSLATION == [name |-> "CODON_TRANSLATION", value |-> "codon_translation"]

SEQUENCE_LIFTOVER == [name |-> "SEQUENCE_LIFTOVER", value |-> "sequence_liftover"]

TRANSCRIPT_PROJECTION ==
    [name |-> "TRANSCRIPT_PROJECTION", value |-> "transcript_projection"]

CoreRelation == {CODON_TRANSLATION, SEQUENCE_LIFTOVER, TRANSCRIPT_PROJECTION}

DefiningContextConstraint(maxRel) ==
    {[type |-> "DefiningContextConstraint", relations |-> r] :
        r \in {None} \cup {Some(s) : s \in Lists(CoreRelation, maxRel)}}

\* set(v.relations)
SetOf(items) == {items[i] : i \in 1..Len(items)}

\* ProteinSequenceConsequenceProperties.validate_constraints: the records
\* handed to logging.warning.
ProteinSequenceConsequenceProperties_validate_constraints(v) ==
    IF Truthy(v.relations) /\ ~In(CODON_TRANSLATION, v.relations.items)
    THEN <<[level |-> "WARNING", missing |-> {CODON_TRANSLATION.value}]>>
    ELSE <<>>

\* CanonicalAlleleProperties.validate_constraints.
CanonicalAlleleProperties_validate_constraints(v) ==
    IF Truthy(v.relations)
    THEN LET required_relations == {SEQUENCE_LIFTOVER, TRANSCRIPT_PROJECTION}
             relations == SetOf(v.relations.items)
         IN IF ~(required_relations \subseteq relations)
            THEN <<[level |-> "WARNING",
                    missing |-> {r.value : r \in required_relations \ relations}]>>
            ELSE <<>>
    ELSE <<>>

\* CategoricalCnvProperties.validate_constraints.
CategoricalCnvProperties_validate_constraints(v) ==
    IF Truthy(v.relations) /\ ~In(SEQUENCE_LIFTOVER, v.relations.items)
    THEN <<[level |-> "WARNING", missing |-> {SEQUENCE_LIFTOVER.value}]>>
    ELSE <<>>

PermissiveRequests ==
    {[profile |-> "permissive", kind |-> k, constraints |-> c] :
        k \in {"CanonicalAllele", "ProteinSequenceConsequence", "CategoricalCnv"},
        c \in DefiningContextConstraint(MaxRelPerm)}

InitPermissive ==
    /\ req \in PermissiveRequests
    /\ phase = "semantic"
    /\ outcome = "none"
    /\ validatorCalled = FALSE
    /\ instance = NoInstance
    /\ log = <<>>
    /\ instances = {}

\* The field validator logs and returns v; the instance holds what it returned.
PermissiveValidation ==
    /\ phase = "semantic"
    /\ req.profile = "permissive"
    /\ validatorCalled' = TRUE
    /\ log' = log \o
         (CASE req.kind = "CanonicalAllele" ->
                  CanonicalAlleleProperties_validate_constraints(req.constraints)
            [] req.kind = "ProteinSequenceConsequence" ->
                  ProteinSequenceConsequenceProperties_validate_constraints(
                      req.constraints)
            [] req.kind = "CategoricalCnv" ->
                  CategoricalCnvProperties_validate_constraints(req.constraints))
    /\ outcome' = "ok"
    /\ instance' = [kind |-> req.kind, type |-> req.kind,
                    constraints |-> req.constraints]
    /\ phase' = "done"
    /\ UNCHANGED <<req, instances>>

NextPermissive == PermissiveValidation

SpecPermissive == InitPermissive /\ [][NextPermissive]_vars

(***************************************************************************)
(* The two profiles side by side: a CanonicalAllele or a                   *)
(* ProteinSequenceConsequence is built by recipes.py from a list of one    *)
(* DefiningAlleleConstraint, and by profile_models.py from one             *)
(* DefiningContextConstraint.                                              *)
(***************************************************************************)
InitProfiles ==
    /\ \E kind \in {"CanonicalAllele", "ProteinSequenceConsequence"} :
       \E c \in Constraint({DefiningAlleleConstraint}, MaxRelCA) :
       \E d \in DefiningContextConstraint(MaxRelPerm) :
          req = [profile |-> "both", kind |-> kind, constraints |-> <<c>>,
                 context |-> d]
    /\ phase = "strict"
    /\ outcome = "none"
    /\ validatorCalled = FALSE
    /\ instance = NoInstance
    /\ log = <<>>
    /\ instances = {}

\* recipes.py builds the kind from [c].
StrictOfProfiles ==
    /\ phase = "strict"
    /\ req.profile = "both"
    /\ outcome' = StrictConstruction(req.kind, req.constraints)
    /\ validatorCalled' = (LengthError(req.kind, req.constraints) = "ok")
    /\ instance' = IF outcome' = "ok"
                   THEN [kind |-> req.kind, type |-> req.kind]
                   ELSE NoInstance
    /\ phase' = "permissive"
    /\ UNCHANGED <<req, log, instances>>

\* profile_models.py builds the kind from d: its validator logs and returns.
PermissiveOfProfiles ==
    /\ phase = "permissive"
    /\ req.profile = "both"
    /\ log' = log \o
         (CASE req.kind = "CanonicalAllele" ->
                  CanonicalAlleleProperties_validate_constraints(req.context)
            [] req.kind = "ProteinSequenceConsequence" ->
                  ProteinSequenceConsequenceProperties_validate_constraints(
                      req.context))
    /\ phase' = "done"
    /\ UNCHANGED <<req, outcome, validatorCalled, instance, instances>>

NextProfiles == StrictOfProfiles \/ PermissiveOfProfiles

SpecProfiles == InitProfiles /\ [][NextProfiles]_vars

(***************************************************************************)
(* Properties of the strict profile.                                       *)
(***************************************************************************)
Done == phase = "done"

\* The number of relations of an optional list whose primaryCode is code.
Matches(opt, code) ==
    IF opt.isNone THEN 0
    ELSE Cardinality({i \in 1..Len(opt.items) : opt.items[i].primaryCode = code})

CardinalityErrors == {"too_short", "too_long"}

\* C1: a strict CanonicalAllele is constructed if and only if the list has
\* exactly one item, the item is a DefiningAlleleConstraint, and its relations
\* hold exactly one liftover_to and exactly one transcribes_to relation.
C1_CanonicalAlleleIff ==
    (Done /\ req.profile = "strict" /\ req.kind = "CanonicalAllele") =>
        LET v == req.constraints IN
        (outcome = "ok") <=>
            /\ Len(v) = 1
            /\ v[1].type = "DefiningAlleleConstraint"
            /\ Matches(v[1].relations, "liftover_to") = 1
            /\ Matches(v[1].relations, "transcribes_to") = 1

\* A CanonicalAllele built from one constraint that carries the two required
\* relations and one relation with another code.
C1_Witness ==
    /\ Done /\ req.profile = "strict" /\ req.kind = "CanonicalAllele"
    /\ outcome = "ok"
    /\ instance.kind = "CanonicalAllele"
    /\ Len(req.constraints) = 1
    /\ Len(req.constraints[1].relations.items) = 3
    /\ Matches(req.constraints[1].relations, "translates_from") = 1

\* An item that satisfies the ProteinSequenceConsequence rule.
Qualifies(c) ==
    /\ c.type = "DefiningAlleleConstraint"
    /\ Matches(c.relations, "translates_from") = 1

\* C2: a strict ProteinSequenceConsequence with at least one item succeeds
\* if some item is a DefiningAlleleConstraint with exactly one translates_from
\* relation, whatever the other items are, and otherwise fails with a value
\* error.
C2_ProteinSequenceConsequenceRule ==
    (/\ Done /\ req.profile = "strict"
     /\ req.kind = "ProteinSequenceConsequence"
     /\ Len(req.constraints) >= 1) =>
        LET v == req.constraints IN
        IF \E i \in 1..Len(v) : Qualifies(v[i])
        THEN outcome = "ok"
        ELSE outcome = "value_error"

\* C3: a strict CategoricalCnv of two items succeeds if and only if one item
\* is a DefiningLocationConstraint with a liftover_to relation and the other
\* is a CopyCountConstraint or a CopyChangeConstraint.
C3_CategoricalCnvIff ==
    (/\ Done /\ req.profile = "strict" /\ req.kind = "CategoricalCnv"
     /\ Len(req.constraints) = 2) =>
        LET v == req.constraints IN
        (outcome = "ok") <=>
            \E i, j \in 1..2 :
                /\ i # j
                /\ v[i].type = "DefiningLocationConstraint"
                /\ Matches(v[i].relations, "liftover_to") >= 1
                /\ v[j].type \in {"CopyCountConstraint", "CopyChangeConstraint"}

LegalLength(kind, n) ==
    CASE kind = "CanonicalAllele" -> n = 1
      [] kind = "CategoricalCnv" -> n = 2
      [] kind = "ProteinSequenceConsequence" -> n >= 1

\* C4: cardinality is checked before any semantic rule: the semantic
\* validator is evaluated only on a list of legal length, and a list of
\* illegal length ends construction with a cardinality error, without the
\* validator having run and without an instance.
C4_CardinalityFirst ==
    req.profile = "strict" =>
        LET legal == LegalLength(req.kind, Len(req.constraints)) IN
        /\ (phase = "semantic" \/ validatorCalled) => legal
        /\ (Done /\ ~legal) =>
              /\ outcome \in CardinalityErrors
              /\ ~validatorCalled
              /\ instance = NoInstance
        /\ outcome # "IndexError"

\* Three items that satisfy the CategoricalCnv rule's types are refused on
\* cardinality, and an empty CanonicalAllele list likewise.
C4_Witness ==
    /\ Done /\ req.profile = "strict" /\ req.kind = "CategoricalCnv"
    /\ Len(req.constraints) = 3
    /\ req.constraints[1].type = "DefiningLocationConstraint"
    /\ req.constraints[2].type = "CopyCountConstraint"
    /\ outcome = "too_long"
    /\ ~validatorCalled

\* C5: in the strict profile every failure is a structural or value error
\* and leaves no instance, no other exception escapes the validators, and an
\* examined constraint with empty or absent relations fails the relation
\* predicate with a value error.
C5_OnlyValueErrors ==
    (Done /\ req.profile = "strict") =>
        LET v == req.constraints IN
        /\ outcome \in {"ok", "value_error"} \cup CardinalityErrors
        /\ outcome # "ok" => instance = NoInstance
        /\ (/\ LegalLength(req.kind, Len(v))
            /\ \A i \in 1..Len(v) : ~Truthy(v[i].relations))
              => outcome = "value_error"

(***************************************************************************)
(* Properties of models.py.                                                *)
(***************************************************************************)
Decoded == Done /\ req.profile = "models" /\ req.op = "decode"

Constructed == Done /\ req.profile = "models" /\ req.op = "construct"

DecodeErrors == {"union_tag_not_found", "union_tag_invalid"}

\* C6: decoding through the CategoricalVariation union yields an instance of
\* exactly the kind the mapping's type names, one of the four members; a
\* mapping whose type is missing or is any other string fails with a decode
\* error and yields no instance of any kind.
C6_DecodeByTag ==
    Decoded =>
        /\ outcome = "ok" =>
              /\ req.m.type \in {"CanonicalAllele", "CategoricalCnv",
                                 "DescribedVariation",
                                 "ProteinSequenceConsequence"}
              /\ instance.kind = req.m.type
        /\ req.m.type \notin {"CanonicalAllele", "CategoricalCnv",
                              "DescribedVariation",
                              "ProteinSequenceConsequence"} =>
              /\ outcome \in DecodeErrors
              /\ instance = NoInstance

\* A mapping without a type, complete for a CanonicalAllele, is refused.
C6_Witness ==
    /\ Decoded
    /\ req.m.type = Absent
    /\ req.m.required
    /\ outcome = "union_tag_not_found"

OfDescribedVariation ==
    /\ Done /\ req.profile = "models"
    /\ \/ req.op = "construct" /\ req.kind = "DescribedVariation"
       \/ req.op = "decode" /\ req.m.type = "DescribedVariation"
    /\ req.m.type \in {Absent, "DescribedVariation"}

\* C8 as stated: construction of a DescribedVariation fails whenever label
\* is absent or the empty string, and succeeds for a non-empty label
\* whatever constraints holds.
C8_NonEmptyLabel ==
    OfDescribedVariation =>
        /\ req.m.label \in {Absent, ""} => outcome # "ok"
        /\ req.m.label \notin {Absent, ""} => outcome = "ok"

\* C8 as amended: construction of a DescribedVariation fails whenever label
\* is absent, and succeeds for every string label, the empty string
\* included, whatever constraints holds.
C8_LabelRequired ==
    OfDescribedVariation =>
        /\ req.m.label = Absent => outcome # "ok" /\ instance = NoInstance
        /\ req.m.label # Absent =>
              /\ outcome = "ok"
              /\ instance.kind = "DescribedVariation"

\* A DescribedVariation built with the empty label and a constraints key.
C8_Witness ==
    /\ OfDescribedVariation
    /\ req.op = "construct"
    /\ req.m.label = ""
    /\ req.m.constraints = "[DefiningAlleleConstraint]"
    /\ outcome = "ok"

(***************************************************************************)
(* Properties of the permissive profile.                                   *)
(***************************************************************************)
\* The codes the permissive profile requires of a kind.
RequiredCodes(kind) ==
    CASE kind = "CanonicalAllele" -> {"sequence_liftover", "transcript_projection"}
      [] kind = "ProteinSequenceConsequence" -> {"codon_translation"}
      [] kind = "CategoricalCnv" -> {"sequence_liftover"}

\* The codes an optional list of relations holds: none when it is absent.
CodesOf(opt) ==
    IF opt.isNone THEN {}
    ELSE {opt.items[i].value : i \in 1..Len(opt.items)}

\* C9: a permissive CanonicalAllele or ProteinSequenceConsequence is always
\* constructed, with the constraint unchanged; a warning naming the missing
\* codes is logged exactly when a required code is missing, an empty or
\* absent relations list included.
C9_WarnWhenMissing ==
    (/\ Done /\ req.profile = "permissive"
     /\ req.kind \in {"CanonicalAllele", "ProteinSequenceConsequence"}) =>
        LET missing == RequiredCodes(req.kind) \ CodesOf(req.constraints.relations)
        IN /\ outcome = "ok"
           /\ instance.constraints = req.constraints
           /\ IF missing = {}
              THEN log = <<>>
              ELSE Len(log) = 1 /\ log[1].missing = missing

(***************************************************************************)
(* Order of the constraints list.                                          *)
(***************************************************************************)
\* The lists that hold the items of v in some order.
Reorderings(v) ==
    {[i \in 1..Len(v) |-> v[p[i]]] : p \in Permutations(1..Len(v))}

\* C12: strict validation of ProteinSequenceConsequence and CategoricalCnv
\* does not depend on the order of the constraints list: construction from
\* any reordering of the list ends as construction from the list did, items
\* with empty or absent relations included.
C12_OrderIndependent ==
    (/\ Done /\ req.profile = "strict"
     /\ req.kind \in {"ProteinSequenceConsequence", "CategoricalCnv"}) =>
        \A w \in Reorderings(req.constraints) :
            StrictConstruction(req.kind, w) = outcome

(***************************************************************************)
(* The two profiles compared.                                              *)
(***************************************************************************)
\* The code of the permissive vocabulary that stands for a strict code.
Counterpart(code) ==
    CASE code = "liftover_to" -> "sequence_liftover"
      [] code = "transcribes_to" -> "transcript_projection"
      [] code = "translates_from" -> "codon_translation"

\* c and d are the same constraint: both absent, or the same relations in the
\* same order, each in its profile's vocabulary.
SameConstraint(c, d) ==
    /\ c.relations.isNone = d.relations.isNone
    /\ Len(c.relations.items) = Len(d.relations.items)
    /\ \A i \in 1..Len(c.relations.items) :
          d.relations.items[i].value = Counterpart(c.relations.items[i].primaryCode)

BothDone ==
    /\ Done /\ req.profile = "both"
    /\ SameConstraint(req.constraints[1], req.context)

\* C13: the two profiles enforce the same rule: the strict
\* construction from [c] is rejected exactly when the permissive construction
\* from c logs a missing-relation warning.
C13_SameRule ==
    BothDone => ((outcome # "ok") <=> (log # <<>>))

====
